---- MODULE Spec2Model ----
(***************************************************************************)
(* Quantization-parameter core of onnxruntime's quant_utils.py:            *)
(* get_qmin_qmax_for_qType, compute_scale_zp, compute_scale_zp_float8,     *)
(* quantize_nparray and quantize_data.                                     *)
(*                                                                         *)
(* Real numbers are exact fractions [n, d] with d >= 0 in lowest terms;    *)
(* d = 0 encodes the IEEE specials the code can produce: 1/0 is +inf,      *)
(* -1/0 is -inf and 0/0 is NaN.  Arithmetic on them is exact: the rounding *)
(* of the code's float32 / float64 operations is not modelled, and the     *)
(* inputs are small whole numbers.  Square roots (numpy.std) are taken in  *)
(* fixed point.  The float 8 conversions, which the code delegates to the  *)
(* onnx package, follow the E4M3FN encoding.                               *)
(***************************************************************************)
EXTENDS Integers, Sequences, FiniteSets, TLC

VARIABLES pc, fn, args, ret, FLOAT8_DISTRIBUTIONS

vars == <<pc, fn, args, ret, FLOAT8_DISTRIBUTIONS>>

\* Longest data array the model quantizes.
MaxLen == 2

\* Python's None, for optional arguments whose values are records
None == [none |-> TRUE]

\* no exception raised / no call in progress
NoError == "none"

-----------------------------------------------------------------------------
\* Exact fractions with IEEE specials.

Sign(i) == IF i > 0 THEN 1 ELSE IF i < 0 THEN -1 ELSE 0

AbsInt(i) == IF i < 0 THEN -i ELSE i

RECURSIVE GCD(_, _)
GCD(a, b) == IF b = 0 THEN a ELSE GCD(b, a % b)

Norm(n, d) ==
    IF d = 0 THEN [n |-> Sign(n), d |-> 0]
    ELSE LET s == IF d < 0 THEN -1 ELSE 1
             g == GCD(AbsInt(n), AbsInt(d))
         IN  [n |-> (s * n) \div g, d |-> (s * d) \div g]

R(i) == [n |-> i, d |-> 1]

Frac(n, d) == Norm(n, d)

IsNaN(a) == a.n = 0 /\ a.d = 0

IsFinite(a) == a.d > 0

\* IEEE comparisons: anything compared with NaN is false.
RLt(a, b) ==
    /\ ~IsNaN(a) /\ ~IsNaN(b)
    /\ IF a.d = 0 /\ b.d = 0 THEN a.n < b.n
       ELSE IF a.d = 0 THEN a.n < 0
       ELSE IF b.d = 0 THEN b.n > 0
       ELSE a.n * b.d < b.n * a.d

RLe(a, b) == ~IsNaN(a) /\ ~IsNaN(b) /\ (a = b \/ RLt(a, b))

RNeg(a) == [n |-> -a.n, d |-> a.d]

RAbs(a) == [n |-> AbsInt(a.n), d |-> a.d]

RAdd(a, b) ==
    IF a.d = 0 /\ b.d = 0
    THEN (IF a.n = b.n THEN a ELSE [n |-> 0, d |-> 0])
    ELSE Norm(a.n * b.d + b.n * a.d, a.d * b.d)

RSub(a, b) == RAdd(a, RNeg(b))

RMul(a, b) == Norm(a.n * b.n, a.d * b.d)

RDiv(a, b) == Norm(a.n * b.d, a.d * b.n)

\* numpy.minimum / numpy.maximum / Python max on two reals
RMin(a, b) == IF RLt(b, a) THEN b ELSE a

RMax(a, b) == IF RLt(a, b) THEN b ELSE a

\* variant: ties are rounded down instead of to even
RoundHalfDown(a) ==
    LET f == a.n \div a.d
        r == a.n % a.d
    IN  IF 2 * r <= a.d THEN f ELSE f + 1

\* numpy.round: round half to even (finite argument)
RoundHalfEven(a) ==
    LET f == a.n \div a.d
        r == a.n % a.d
    IN  IF 2 * r < a.d THEN f
        ELSE IF 2 * r > a.d THEN f + 1
        ELSE IF f % 2 = 0 THEN f ELSE f + 1

\* n/d < 2^(-k), for n >= 0 and d > 0
RECURSIVE LtPow2Neg(_, _, _)
LtPow2Neg(n, d, k) ==
    IF n >= d THEN FALSE
    ELSE IF k = 0 \/ n = 0 THEN TRUE
    ELSE LtPow2Neg(2 * n, d, k - 1)

-----------------------------------------------------------------------------
\* Storage types and their numpy dtypes.

IntTypes == {"UINT8", "INT8", "UINT16", "INT16"}

Float8Types == {"FLOAT8E4M3FN", "FLOAT8E4M3FNUZ", "FLOAT8E5M2", "FLOAT8E5M2FNUZ"}

ONNX_TYPE_TO_NP_TYPE ==
    [t \in IntTypes \cup {"FLOAT8E4M3FN"} |->
        CASE t = "INT8" -> "int8"
          [] t = "UINT8" -> "uint8"
          [] t = "INT16" -> "int16"
          [] t = "UINT16" -> "uint16"
          [] t = "FLOAT8E4M3FN" -> "float8e4m3fn"]

DTypeLo(dt) ==
    CASE dt = "int8" -> -128
      [] dt = "uint8" -> 0
      [] dt = "int16" -> -32768
      [] dt = "uint16" -> 0

DTypeHi(dt) ==
    CASE dt = "int8" -> 127
      [] dt = "uint8" -> 255
      [] dt = "int16" -> 32767
      [] dt = "uint16" -> 65535

\* Conversion of an integer value to a fixed-width integer dtype (wraps).
AsType(dt, v) ==
    IF dt \in {"int8", "uint8", "int16", "uint16"}
    THEN LET w == DTypeHi(dt) - DTypeLo(dt) + 1
         IN  ((v - DTypeLo(dt)) % w) + DTypeLo(dt)
    ELSE v

QRange(dt, lo, hi) == [dtype |-> dt, qmin |-> lo, qmax |-> hi]

ONNX_INT_TYPE_RANGE ==
    [t \in IntTypes |->
        CASE t = "UINT8" -> QRange("uint8", 0, 255)
          [] t = "INT8" -> QRange("int8", -128, 127)
          [] t = "UINT16" -> QRange("uint16", 0, 65535)
          [] t = "INT16" -> QRange("int16", -32768, 32767)]

ONNX_INT_TYPE_SYMMETRIC_RANGE ==
    [t \in {"INT8", "INT16"} |->
        CASE t = "INT8" -> QRange("int8", -127, 127)
          [] t = "INT16" -> QRange("int16", -32767, 32767)]

ONNX_INT_TYPE_REDUCED_RANGE ==
    [t \in IntTypes |->
        CASE t = "UINT8" -> QRange("uint8", 0, 127)
          [] t = "INT8" -> QRange("int8", -64, 64)
          [] t = "UINT16" -> QRange("uint16", 0, 32767)
          [] t = "INT16" -> QRange("int16", -16384, 16384)]

\* dict.get: None when the key is missing
DictGet(table, key) == IF key \in DOMAIN table THEN table[key] ELSE None

Raise(e) == [raised |-> e]

-----------------------------------------------------------------------------
\* get_qmin_qmax_for_qType(qType, reduce_range, symmetric)

\* variant: the symmetric table is consulted before reduce_range
get_qmin_qmax_symmetric_first(qType, reduce_range, symmetric) ==
    IF qType = "FLOAT8E4M3FN" THEN Raise("NotImplementedError")
    ELSE LET qrange ==
                 IF symmetric /\ qType \in DOMAIN ONNX_INT_TYPE_SYMMETRIC_RANGE
                 THEN ONNX_INT_TYPE_SYMMETRIC_RANGE[qType]
                 ELSE IF reduce_range THEN DictGet(ONNX_INT_TYPE_REDUCED_RANGE, qType)
                      ELSE DictGet(ONNX_INT_TYPE_RANGE, qType)
         IN  IF qrange = None THEN Raise("ValueError")
             ELSE IF qrange.qmin > 0 \/ qrange.qmax < 0 THEN Raise("ValueError")
             ELSE [raised |-> NoError, qrange |-> qrange]

get_qmin_qmax_for_qType(qType, reduce_range, symmetric) ==
    IF qType = "FLOAT8E4M3FN" THEN Raise("NotImplementedError")
    ELSE LET qrange ==
                 IF reduce_range THEN DictGet(ONNX_INT_TYPE_REDUCED_RANGE, qType)
                 ELSE IF symmetric /\ qType \in DOMAIN ONNX_INT_TYPE_SYMMETRIC_RANGE
                      THEN ONNX_INT_TYPE_SYMMETRIC_RANGE[qType]
                      ELSE DictGet(ONNX_INT_TYPE_RANGE, qType)
         IN  IF qrange = None THEN Raise("ValueError")
             ELSE IF qrange.qmin > 0 \/ qrange.qmax < 0 THEN Raise("ValueError")
             ELSE [raised |-> NoError, qrange |-> qrange]

-----------------------------------------------------------------------------
\* compute_scale_zp(rmin, rmax, qmin, qmax, symmetric, min_real_range)

\* numpy.finfo(float32).tiny = 2^-126
TinyExp == 126

LessThanTiny(scale) == IsFinite(scale) /\ scale.n >= 0 /\ LtPow2Neg(scale.n, scale.d, TinyExp)

\* variant: rmin is not clamped to include zero
csz_rmin_unclamped(rmin) == rmin

\* l.242: rmin clamped to include zero
csz_rmin(rmin) == RMin(rmin, R(0))

\* variant: min_real_range is ignored
csz_rmax_unwidened(rmin, rmax, min_real_range) == RMax(rmax, R(0))

\* l.243-247: rmax clamped to include zero, then widened to min_real_range
csz_rmax(rmin, rmax, min_real_range) ==
    LET rmax0 == RMax(rmax, R(0))
    IN  IF min_real_range # None
        THEN RMax(rmax0, RAdd(csz_rmin(rmin), min_real_range))
        ELSE rmax0

\* variant: the interval is not symmetrized
csz_interval_unsymmetrized(rmin, rmax, symmetric, min_real_range) ==
    [rmin |-> csz_rmin(rmin), rmax |-> csz_rmax(rmin, rmax, min_real_range)]

\* l.249-252: the interval the scale is computed from
csz_interval(rmin, rmax, symmetric, min_real_range) ==
    LET lo == csz_rmin(rmin)
        hi == csz_rmax(rmin, rmax, min_real_range)
        absmax == RMax(RAbs(lo), RAbs(hi))
    IN  IF symmetric THEN [rmin |-> RNeg(absmax), rmax |-> absmax]
        ELSE [rmin |-> lo, rmax |-> hi]

\* l.255-257
csz_scale(rmin, rmax, qr, symmetric, min_real_range) ==
    LET iv == csz_interval(rmin, rmax, symmetric, min_real_range)
        dr == RSub(iv.rmax, iv.rmin)
        dq == RSub(R(qr.qmax), R(qr.qmin))
    IN  RDiv(dr, dq)

\* l.263-273
csz_zero_point(rmin, rmax, qr, symmetric, min_real_range) ==
    LET iv == csz_interval(rmin, rmax, symmetric, min_real_range)
        scale == csz_scale(rmin, rmax, qr, symmetric, min_real_range)
    IN  IF symmetric
        THEN AsType(qr.dtype, RoundHalfEven(RDiv(R(AsType(qr.dtype, qr.qmin + qr.qmax)), R(2))))
        ELSE AsType(qr.dtype, RoundHalfEven(RSub(R(qr.qmin), RDiv(iv.rmin, scale))))

\* variant: the degenerate branch keeps the computed scale
compute_scale_zp_keeps_scale(rmin, rmax, qr, symmetric, min_real_range) ==
    IF qr.qmin > 0 \/ qr.qmax < 0 THEN Raise("ValueError")
    ELSE IF ~(qr.qmin <= qr.qmax) THEN Raise("AssertionError")
    ELSE LET scale == csz_scale(rmin, rmax, qr, symmetric, min_real_range)
         IN  IF ~RLe(R(0), scale) THEN Raise("AssertionError")
             ELSE IF LessThanTiny(scale)
                  THEN [raised |-> NoError,
                        zero_point |-> [dtype |-> qr.dtype, v |-> 0],
                        scale |-> scale]
                  ELSE [raised |-> NoError,
                        zero_point |-> [dtype |-> qr.dtype,
                                        v |-> csz_zero_point(rmin, rmax, qr, symmetric,
                                                             min_real_range)],
                        scale |-> scale]

compute_scale_zp(rmin, rmax, qr, symmetric, min_real_range) ==
    IF qr.qmin > 0 \/ qr.qmax < 0 THEN Raise("ValueError")
    ELSE IF ~(qr.qmin <= qr.qmax) THEN Raise("AssertionError")
    ELSE LET scale == csz_scale(rmin, rmax, qr, symmetric, min_real_range)
         IN  IF ~RLe(R(0), scale) THEN Raise("AssertionError")
             ELSE IF LessThanTiny(scale)
                  THEN [raised |-> NoError,
                        zero_point |-> [dtype |-> qr.dtype, v |-> 0],
                        scale |-> R(1)]
                  ELSE [raised |-> NoError,
                        zero_point |-> [dtype |-> qr.dtype,
                                        v |-> csz_zero_point(rmin, rmax, qr, symmetric,
                                                             min_real_range)],
                        scale |-> scale]

-----------------------------------------------------------------------------
\* Arrays: [shape |-> <<dims>>, elems |-> <<values in row-major order>>].

Array(shape, elems) == [shape |-> shape, elems |-> elems]

\* len(arr): the first dimension
PyLen(arr) == arr.shape[1]

\* sum of s[lo..hi], by halves
RECURSIVE SumRange(_, _, _)
SumRange(s, lo, hi) ==
    IF lo > hi THEN 0
    ELSE IF lo = hi THEN s[lo]
    ELSE LET mid == (lo + hi) \div 2
         IN  SumRange(s, lo, mid) + SumRange(s, mid + 1, hi)

SeqSum(s) == SumRange(s, 1, Len(s))

RECURSIVE SeqMin(_)
SeqMin(s) == IF Len(s) = 1 THEN s[1]
             ELSE LET m == SeqMin(Tail(s)) IN IF s[1] < m THEN s[1] ELSE m

RECURSIVE SeqMax(_)
SeqMax(s) == IF Len(s) = 1 THEN s[1]
             ELSE LET m == SeqMax(Tail(s)) IN IF s[1] > m THEN s[1] ELSE m

\* floor of the square root of a natural number
RECURSIVE IsqrtIter(_, _, _)
IsqrtIter(n, lo, hi) ==
    IF lo >= hi THEN lo
    ELSE LET mid == (lo + hi + 1) \div 2
         IN  IF mid <= n \div mid THEN IsqrtIter(n, mid, hi) ELSE IsqrtIter(n, lo, mid - 1)

Isqrt(n) == IF n < 2 THEN n ELSE IsqrtIter(n, 1, 46340)

\* square root of a fraction p/q >= 0, to 8 fractional bits (4 for large p/q)
RSqrt(a) ==
    IF a.n \div a.d >= 65536
    THEN Frac(Isqrt((a.n \div a.d) * 256), 16)
    ELSE Frac(Isqrt((a.n * 65536) \div a.d), 256)

\* numpy.std of an array of whole numbers; NaN for an array without elements
NumpyStd(elems) ==
    LET n == Len(elems)
        mean == Frac(SeqSum(elems), n)
        meansq == Frac(SeqSum([i \in 1..n |-> elems[i] * elems[i]]), n)
    IN  IF n = 0 THEN [n |-> 0, d |-> 0]
        ELSE RSqrt(RSub(meansq, RMul(mean, mean)))

-----------------------------------------------------------------------------
\* Float 8 (E4M3FN).  A finite value is held in units of 2^-9, the smallest
\* subnormal.

Pow2(k) == IF k = 0 THEN 1 ELSE 2 ^ k

IsFloat8NaN(code) == code % 128 = 127

\* float8e4m3_to_float32(i), in units of 2^-9 (NaN codes excluded by the caller)
float8e4m3_to_float32(code) ==
    LET sgn == IF code >= 128 THEN -1 ELSE 1
        e == (code % 128) \div 8
        m == code % 8
    IN  IF e = 0 THEN sgn * m ELSE sgn * (8 + m) * Pow2(e - 1)

\* l.296-299: the finite values among the 256 codes
Float8E4M3FNValues ==
    LET all_codes == [i \in 1..256 |-> i - 1]
        finite == SelectSeq(all_codes, LAMBDA c : ~IsFloat8NaN(c))
    IN  [i \in 1..Len(finite) |-> float8e4m3_to_float32(finite[i])]

\* numpy.std of a table of float 8 values (units of 2^-9): the squares are
\* accumulated in units of 2^-8
NumpyStdTable(values) ==
    LET n == Len(values)
        coarse == [i \in 1..n |-> Sign(values[i]) * (AbsInt(values[i]) \div 32)]
        mean == Frac(SeqSum(coarse), n)
        meansq == Frac(SeqSum([i \in 1..n |-> coarse[i] * coarse[i]]), n)
    IN  RDiv(RSqrt(RSub(meansq, RMul(mean, mean))), R(16))

\* exponent field of the E4M3FN code holding a, for 2^-6 <= a < 512
RECURSIVE Float8Exponent(_, _)
Float8Exponent(a, e) ==
    IF e = 15 THEN 15
    ELSE IF (e >= 6 /\ a.n < a.d * Pow2(e - 6)) \/ (e < 6 /\ a.n * Pow2(6 - e) < a.d)
         THEN e
         ELSE Float8Exponent(a, e + 1)

\* QuantizeLinear to FLOAT8E4M3FN with saturation: the code nearest to v
\* (ties to even), 126 beyond the largest finite value, NaN for NaN
Float8E4M3FNEncode(v) ==
    IF IsNaN(v) THEN 255
    ELSE LET sgn == IF v.n < 0 THEN 128 ELSE 0
             a == RAbs(v)
         IN  IF a.d = 0 THEN sgn + 126
             ELSE IF a.n * 64 < a.d
                  THEN sgn + RoundHalfEven(Frac(a.n * 512, a.d))
                  ELSE LET e == Float8Exponent(a, 1)
                           m == IF e >= 10 THEN RoundHalfEven(Frac(a.n, a.d * Pow2(e - 10)))
                                ELSE RoundHalfEven(Frac(a.n * Pow2(10 - e), a.d))
                           code == 8 * (e - 1) + m
                       IN  sgn + (IF code > 126 THEN 126 ELSE code)

-----------------------------------------------------------------------------
\* _check_type(*args, zero_point_index): every argument here is a number or
\* an array, so the only failure is a float32 / float16 zero point.

_check_type(zero_point, zero_point_index) ==
    IF zero_point_index = 2 /\ zero_point.dtype \in {"float32", "float16"}
    THEN "TypeError"
    ELSE NoError

-----------------------------------------------------------------------------
\* quantize_nparray(qType, arr, scale, zero_point, low, high)

PyMaxInt(a, b) == IF b > a THEN b ELSE a

PyMinInt(a, b) == IF b < a THEN b ELSE a

\* l.207-210: the clipping bounds of the integer path
qn_cliplow(qType, low) ==
    LET qr == get_qmin_qmax_for_qType(qType, FALSE, TRUE).qrange
    IN  IF low # None THEN PyMaxInt(qr.qmin, low.v) ELSE qr.qmin

qn_cliphigh(qType, high) ==
    LET qr == get_qmin_qmax_for_qType(qType, FALSE, TRUE).qrange
    IN  IF high # None THEN PyMinInt(qr.qmax, high.v) ELSE qr.qmax

\* numpy.clip(v, lo, hi) = minimum(maximum(v, lo), hi)
NumpyClip(v, lo, hi) == PyMinInt(PyMaxInt(v, lo), hi)

\* variant: the cast to the storage type comes before the clip
qn_element_cast_first(qType, x, scale, zero_point, low, high) ==
    LET dtype == ONNX_TYPE_TO_NP_TYPE[qType]
        cliplow == qn_cliplow(qType, low)
        cliphigh == qn_cliphigh(qType, high)
        y == RDiv(R(x), scale)
    IN  IF IsFinite(y)
        THEN NumpyClip(AsType(dtype, RoundHalfEven(y) + zero_point.v), cliplow, cliphigh)
        ELSE IF y.n > 0 THEN cliphigh ELSE PyMinInt(cliplow, cliphigh)

\* l.211-213 for one element: round(x / scale) + zero_point, clipped, cast
\* (an infinite quotient is clipped like any other value)
qn_element(qType, x, scale, zero_point, low, high) ==
    LET dtype == ONNX_TYPE_TO_NP_TYPE[qType]
        cliplow == qn_cliplow(qType, low)
        cliphigh == qn_cliphigh(qType, high)
        y == RDiv(R(x), scale)
        clipped == IF IsFinite(y)
                   THEN NumpyClip(RoundHalfEven(y) + zero_point.v, cliplow, cliphigh)
                   ELSE IF y.n > 0 THEN cliphigh ELSE PyMinInt(cliplow, cliphigh)
    IN  AsType(dtype, clipped)

\* variant: the float 8 path accepts any zero point
quantize_nparray_any_zero_point(qType, arr, scale, zero_point, low, high) ==
    IF qType \notin DOMAIN ONNX_TYPE_TO_NP_TYPE THEN Raise("AssertionError")
    ELSE IF qType \in Float8Types
    THEN [raised |-> NoError,
          quantized |-> Array(arr.shape,
              [i \in 1..Len(arr.elems) |->
                  Float8E4M3FNEncode(RDiv(R(arr.elems[i]), scale))])]
    ELSE [raised |-> NoError,
          quantized |-> Array(arr.shape,
              [i \in 1..Len(arr.elems) |->
                  qn_element(qType, arr.elems[i], scale, zero_point, low, high)])]

quantize_nparray(qType, arr, scale, zero_point, low, high) ==
    IF qType \notin DOMAIN ONNX_TYPE_TO_NP_TYPE THEN Raise("AssertionError")
    ELSE IF qType \in Float8Types
    THEN IF zero_point.v # 0 THEN Raise("NotImplementedError")
         ELSE [raised |-> NoError,
               quantized |-> Array(arr.shape,
                   [i \in 1..Len(arr.elems) |->
                       Float8E4M3FNEncode(RDiv(R(arr.elems[i]), scale))])]
    ELSE [raised |-> NoError,
          quantized |-> Array(arr.shape,
              [i \in 1..Len(arr.elems) |->
                  qn_element(qType, arr.elems[i], scale, zero_point, low, high)])]

\* l.213: the cast of a float below the range of an unsigned storage type is
\* left to the platform, which wraps it or saturates it to 0.  The clipped
\* values leave the range of the type only when cliphigh lies below it, and
\* then every element is cliphigh.
quantize_nparray_outcomes(qType, arr, scale, zero_point, low, high) ==
    LET r == quantize_nparray(qType, arr, scale, zero_point, low, high)
    IN  IF /\ r.raised = NoError
           /\ qType \in IntTypes
           /\ qn_cliphigh(qType, high) < DTypeLo(ONNX_TYPE_TO_NP_TYPE[qType])
        THEN {r, [raised |-> NoError,
                  quantized |-> Array(arr.shape,
                      [i \in 1..Len(arr.elems) |-> DTypeLo(ONNX_TYPE_TO_NP_TYPE[qType])])]}
        ELSE {r}

-----------------------------------------------------------------------------
\* compute_scale_zp_float8(element_type, std), with the cache it fills

\* l.290-306: the cache after the call (unchanged when the call raises)
f8_cache(cache, element_type) ==
    IF element_type \notin DOMAIN cache /\ element_type = "FLOAT8E4M3FN"
    THEN [t \in DOMAIN cache \cup {element_type} |->
             IF t = element_type THEN Float8E4M3FNValues ELSE cache[t]]
    ELSE cache

compute_scale_zp_float8(cache, element_type, std) ==
    IF element_type \notin DOMAIN cache /\ element_type # "FLOAT8E4M3FN"
    THEN Raise("ValueError")
    ELSE IF element_type # "FLOAT8E4M3FN" THEN Raise("TypeError")
    ELSE LET std_f8 == NumpyStdTable(f8_cache(cache, element_type)[element_type])
         IN  [raised |-> NoError,
              zero_point |-> [dtype |-> "float8e4m3fn", v |-> 0],
              scale |-> RDiv(std, std_f8)]

-----------------------------------------------------------------------------
\* quantize_data(data, qType, symmetric, reduce_range, min_real_range,
\*               rmin_override, rmax_override)

\* l.346-357: the real range; data.min() / data.max() of an array without
\* elements raises ValueError
qd_range_raises(data, rmin_override, rmax_override) ==
    /\ PyLen(data) # 0
    /\ Len(data.elems) = 0
    /\ (rmin_override = None \/ rmax_override = None)

qd_rmin(data, rmin_override) ==
    IF rmin_override # None THEN rmin_override
    ELSE IF PyLen(data) # 0 THEN R(SeqMin(data.elems)) ELSE R(0)

qd_rmax(data, rmax_override) ==
    IF rmax_override # None THEN rmax_override
    ELSE IF PyLen(data) # 0 THEN R(SeqMax(data.elems)) ELSE R(0)

\* variant: the NaN-code scan is left out
qd_float8_unguarded(cache, data, qType, reduce_range, rmin, rmax) ==
    IF reduce_range THEN Raise("RuntimeError")
    ELSE LET std == NumpyStd(data.elems)
             zs == compute_scale_zp_float8(cache, qType, std)
             q == quantize_nparray(qType, data, zs.scale, zs.zero_point, None, None)
         IN  IF zs.raised # NoError THEN Raise(zs.raised)
             ELSE IF q.raised # NoError THEN Raise(q.raised)
             ELSE [raised |-> NoError, rmin |-> rmin, rmax |-> rmax,
                   zero_point |-> zs.zero_point, scale |-> zs.scale,
                   quantized_data |-> q.quantized,
                   called |-> {"compute_scale_zp_float8", "quantize_nparray"}]

\* l.361-373
qd_float8(cache, data, qType, reduce_range, rmin, rmax) ==
    IF reduce_range THEN Raise("RuntimeError")
    ELSE LET std == NumpyStd(data.elems)
             zs == compute_scale_zp_float8(cache, qType, std)
             q == quantize_nparray(qType, data, zs.scale, zs.zero_point, None, None)
         IN  IF zs.raised # NoError THEN Raise(zs.raised)
             ELSE IF q.raised # NoError THEN Raise(q.raised)
             ELSE IF \E i \in 1..Len(q.quantized.elems) : q.quantized.elems[i] % 128 = 127
                  THEN Raise("RuntimeError")
                  ELSE IF _check_type(zs.zero_point, 2) # NoError
                       THEN Raise(_check_type(zs.zero_point, 2))
                       ELSE [raised |-> NoError, rmin |-> rmin, rmax |-> rmax,
                             zero_point |-> zs.zero_point, scale |-> zs.scale,
                             quantized_data |-> q.quantized,
                             called |-> {"compute_scale_zp_float8", "quantize_nparray"}]

\* l.375-380
qd_integer(data, qType, symmetric, reduce_range, min_real_range, rmin, rmax) ==
    LET qr == get_qmin_qmax_for_qType(qType, reduce_range, symmetric)
        zs == IF PyLen(data) # 0
              THEN compute_scale_zp(rmin, rmax, qr.qrange, symmetric, min_real_range)
              ELSE [raised |-> NoError, zero_point |-> [dtype |-> "int64", v |-> 0],
                    scale |-> R(1)]
        q == quantize_nparray(qType, data, zs.scale, zs.zero_point, None, None)
    IN  IF PyLen(data) # 0 /\ qr.raised # NoError THEN Raise(qr.raised)
        ELSE IF zs.raised # NoError THEN Raise(zs.raised)
        ELSE IF q.raised # NoError THEN Raise(q.raised)
        ELSE IF _check_type(zs.zero_point, 2) # NoError
             THEN Raise(_check_type(zs.zero_point, 2))
             ELSE [raised |-> NoError, rmin |-> rmin, rmax |-> rmax,
                   zero_point |-> zs.zero_point, scale |-> zs.scale,
                   quantized_data |-> q.quantized,
                   called |-> (IF PyLen(data) # 0
                               THEN {"get_qmin_qmax_for_qType", "compute_scale_zp"}
                               ELSE {}) \cup {"quantize_nparray"}]

quantize_data(cache, data, qType, symmetric, reduce_range, min_real_range, rmin_override, rmax_override) ==
    IF qd_range_raises(data, rmin_override, rmax_override) THEN Raise("ValueError")
    ELSE LET rmin == qd_rmin(data, rmin_override)
             rmax == qd_rmax(data, rmax_override)
         IN  IF qType = "FLOAT8E4M3FN"
             THEN qd_float8(cache, data, qType, reduce_range, rmin, rmax)
             ELSE IF qType \in {"INT8", "UINT8", "INT16", "UINT16"}
                  THEN qd_integer(data, qType, symmetric, reduce_range, min_real_range,
                                  rmin, rmax)
                  ELSE Raise("ValueError")

\* the cache after quantize_data: filled when the float 8 branch reaches
\* compute_scale_zp_float8
qd_cache(cache, data, qType, reduce_range, rmin_override, rmax_override) ==
    IF /\ ~qd_range_raises(data, rmin_override, rmax_override)
       /\ qType = "FLOAT8E4M3FN"
       /\ ~reduce_range
    THEN f8_cache(cache, qType)
    ELSE cache

-----------------------------------------------------------------------------
\* Inputs

\* real values the model draws data, ranges and overrides from
Values == {-3, -1, 0, 1, 2}

MinRealRanges == {None, R(0), Frac(1, 2), R(4)}

\* representable ranges handed to compute_scale_zp directly: the table
\* entries and a few caller-built ones (among them two invalid ones)
QRanges ==
    {ONNX_INT_TYPE_RANGE[t] : t \in IntTypes}
    \cup {ONNX_INT_TYPE_SYMMETRIC_RANGE[t] : t \in {"INT8", "INT16"}}
    \cup {ONNX_INT_TYPE_REDUCED_RANGE[t] : t \in IntTypes}
    \cup {QRange("int8", 0, 0), QRange("int8", -8, 7), QRange("uint8", 0, 15),
          QRange("int8", 1, 5), QRange("int8", -5, -1)}

QTypes == IntTypes \cup Float8Types \cup {"INT32"}

-----------------------------------------------------------------------------
\* arrays of up to n whole numbers, one-dimensional or of a listed shape
ExtraShapes == {<<0, 2>>, <<2, 0>>, <<2, 1>>}

Arrays(n) ==
    UNION {{Array(shape, elems) :
               shape \in {<<k>>} \cup {s \in ExtraShapes : s[1] * s[2] = k},
               elems \in [1..k -> Values]} : k \in 0..n}

\* the arrays quantize_data is run on: every array up to MaxLen, and the
\* array of the worked example
DataArrays == Arrays(MaxLen) \cup {Array(<<3>>, <<-1, 0, 2>>)}

\* the arrays quantize_nparray is run on directly
PlainArrays ==
    Arrays(1) \cup {Array(<<2>>, <<-3, 2>>), Array(<<2, 1>>, <<-1, 1>>),
                    Array(<<0, 2>>, <<>>), Array(<<2, 0>>, <<>>)}

\* standard deviations handed to compute_scale_zp_float8 directly
Stds == {NumpyStd(a.elems) : a \in PlainArrays}

Overrides(v) == {None, R(v)}

ZeroPoints == {[dtype |-> "int8", v |-> 0], [dtype |-> "int8", v |-> 3],
               [dtype |-> "uint8", v |-> 128], [dtype |-> "float32", v |-> 0]}

Scales == {R(1), Frac(1, 2), Frac(4, 255)}

ClipBounds(v) == {None, [v |-> v]}

Idle == [raised |-> NoError]

EmptyCache == [t \in {} |-> <<>>]

Init ==
    /\ pc = "idle"
    /\ fn = "none"
    /\ args = <<>>
    /\ ret = Idle
    /\ FLOAT8_DISTRIBUTIONS = EmptyCache

Call_get_qmin_qmax_for_qType ==
    /\ pc = "idle"
    /\ \E qType \in QTypes, reduce_range \in BOOLEAN, symmetric \in BOOLEAN :
          /\ fn' = "get_qmin_qmax_for_qType"
          /\ args' = [qType |-> qType, reduce_range |-> reduce_range, symmetric |-> symmetric]
          /\ ret' = get_qmin_qmax_for_qType(qType, reduce_range, symmetric)
    /\ pc' = "done"
    /\ UNCHANGED FLOAT8_DISTRIBUTIONS

Call_compute_scale_zp ==
    /\ pc = "idle"
    /\ \E rmin \in Values, rmax \in Values, qr \in QRanges,
          symmetric \in BOOLEAN, mrr \in MinRealRanges :
          /\ fn' = "compute_scale_zp"
          /\ args' = [rmin |-> R(rmin), rmax |-> R(rmax), qr |-> qr,
                      symmetric |-> symmetric, min_real_range |-> mrr]
          /\ ret' = compute_scale_zp(R(rmin), R(rmax), qr, symmetric, mrr)
    /\ pc' = "done"
    /\ UNCHANGED FLOAT8_DISTRIBUTIONS

Call_compute_scale_zp_float8 ==
    /\ pc = "idle"
    /\ \E element_type \in Float8Types, std \in Stds :
          /\ fn' = "compute_scale_zp_float8"
          /\ args' = [element_type |-> element_type, std |-> std]
          /\ ret' = compute_scale_zp_float8(FLOAT8_DISTRIBUTIONS, element_type, std)
          /\ FLOAT8_DISTRIBUTIONS' = f8_cache(FLOAT8_DISTRIBUTIONS, element_type)
    /\ pc' = "done"

Call_quantize_nparray ==
    /\ pc = "idle"
    /\ \E qType \in QTypes, arr \in PlainArrays, scale \in Scales, zero_point \in ZeroPoints,
          low \in ClipBounds(-10), high \in ClipBounds(10) \cup ClipBounds(-20) :
          /\ fn' = "quantize_nparray"
          /\ args' = [qType |-> qType, arr |-> arr, scale |-> scale,
                      zero_point |-> zero_point, low |-> low, high |-> high]
          /\ ret' \in quantize_nparray_outcomes(qType, arr, scale, zero_point, low, high)
    /\ pc' = "done"
    /\ UNCHANGED FLOAT8_DISTRIBUTIONS

Call_quantize_data ==
    /\ pc = "idle"
    /\ \E data \in DataArrays,
          qType \in IntTypes \cup {"FLOAT8E4M3FN", "FLOAT8E5M2", "INT32"},
          symmetric \in BOOLEAN, reduce_range \in BOOLEAN,
          min_real_range \in {None, R(4)},
          rmin_override \in Overrides(-1), rmax_override \in Overrides(1) :
          /\ fn' = "quantize_data"
          /\ args' = [data |-> data, qType |-> qType, symmetric |-> symmetric,
                      reduce_range |-> reduce_range, min_real_range |-> min_real_range,
                      rmin_override |-> rmin_override, rmax_override |-> rmax_override]
          /\ ret' = quantize_data(FLOAT8_DISTRIBUTIONS, data, qType, symmetric,
                                  reduce_range, min_real_range, rmin_override,
                                  rmax_override)
          /\ FLOAT8_DISTRIBUTIONS' = qd_cache(FLOAT8_DISTRIBUTIONS, data, qType,
                                              reduce_range, rmin_override, rmax_override)
    /\ pc' = "done"

\* the caller takes the result
Return ==
    /\ pc = "done"
    /\ pc' = "idle"
    /\ fn' = "none"
    /\ args' = <<>>
    /\ ret' = Idle
    /\ UNCHANGED FLOAT8_DISTRIBUTIONS

Next ==
    \/ Call_get_qmin_qmax_for_qType
    \/ Call_compute_scale_zp
    \/ Call_compute_scale_zp_float8
    \/ Call_quantize_nparray
    \/ Call_quantize_data
    \/ Return

Spec == Init /\ [][Next]_vars

-----------------------------------------------------------------------------
\* Concurrent callers of compute_scale_zp_float8.  Nothing in the module
\* synchronizes the accesses to FLOAT8_DISTRIBUTIONS, so a call is a sequence
\* of steps that other callers interleave with: the membership test, the
\* computation of the table, the store, and the read of the stored table.
\* Here pc, fn, args and ret hold one entry per caller, and args[c] is the
\* frame of the call (arguments and locals).

\* Number of concurrent callers.
NumCallers == 2

Callers == 1..NumCallers

\* float 8 variants and standard deviations the concurrent callers pass
F8ElementTypes == {"FLOAT8E4M3FN", "FLOAT8E5M2"}

F8Stds == {R(1), Frac(5, 2)}

\* variant: every variant is taken as supported
f8_supported_any(element_type) == TRUE

\* l.291
f8_supported(element_type) == element_type = "FLOAT8E4M3FN"

\* dict[key] = value
DictSet(table, key, value) ==
    [k \in DOMAIN table \cup {key} |-> IF k = key THEN value ELSE table[k]]

CacheInit ==
    /\ pc = [c \in Callers |-> "idle"]
    /\ fn = [c \in Callers |-> "none"]
    /\ args = [c \in Callers |-> <<>>]
    /\ ret = [c \in Callers |-> Idle]
    /\ FLOAT8_DISTRIBUTIONS = EmptyCache

\* l.279, l.289: the call, with zp_dtype = None
F8_Call(c) ==
    /\ pc[c] = "idle"
    /\ \E element_type \in F8ElementTypes, std \in F8Stds :
          args' = [args EXCEPT ![c] = [element_type |-> element_type, std |-> std,
                                       zp_dtype |-> None, values |-> <<>>]]
    /\ fn' = [fn EXCEPT ![c] = "compute_scale_zp_float8"]
    /\ pc' = [pc EXCEPT ![c] = "l290"]
    /\ UNCHANGED <<ret, FLOAT8_DISTRIBUTIONS>>

\* l.290: element_type not in FLOAT8_DISTRIBUTIONS
F8_Lookup(c) ==
    /\ pc[c] = "l290"
    /\ pc' = [pc EXCEPT ![c] = IF args[c].element_type \notin DOMAIN FLOAT8_DISTRIBUTIONS
                               THEN "l291" ELSE "l303"]
    /\ UNCHANGED <<fn, args, ret, FLOAT8_DISTRIBUTIONS>>

\* l.291-301: the table of finite values, or ValueError
F8_Compute(c) ==
    /\ pc[c] = "l291"
    /\ IF f8_supported(args[c].element_type)
       THEN /\ args' = [args EXCEPT ![c].zp_dtype = [dtype |-> "float8e4m3fn"],
                                    ![c].values = Float8E4M3FNValues]
            /\ pc' = [pc EXCEPT ![c] = "l302"]
            /\ UNCHANGED ret
       ELSE /\ ret' = [ret EXCEPT ![c] = Raise("ValueError")]
            /\ pc' = [pc EXCEPT ![c] = "done"]
            /\ UNCHANGED args
    /\ UNCHANGED <<fn, FLOAT8_DISTRIBUTIONS>>

\* l.302: FLOAT8_DISTRIBUTIONS[element_type] = values
F8_Store(c) ==
    /\ pc[c] = "l302"
    /\ FLOAT8_DISTRIBUTIONS' =
           DictSet(FLOAT8_DISTRIBUTIONS, args[c].element_type, args[c].values)
    /\ pc' = [pc EXCEPT ![c] = "l308"]
    /\ UNCHANGED <<fn, args, ret>>

\* l.303-306: the entry was there; zp_dtype is set for E4M3FN only
F8_Hit(c) ==
    /\ pc[c] = "l303"
    /\ args' = [args EXCEPT ![c].zp_dtype =
                    IF args[c].element_type = "FLOAT8E4M3FN"
                    THEN [dtype |-> "float8e4m3fn"] ELSE None]
    /\ pc' = [pc EXCEPT ![c] = "l308"]
    /\ UNCHANGED <<fn, ret, FLOAT8_DISTRIBUTIONS>>

\* l.308-309
F8_TypeCheck(c) ==
    /\ pc[c] = "l308"
    /\ IF args[c].zp_dtype = None
       THEN /\ ret' = [ret EXCEPT ![c] = Raise("TypeError")]
            /\ pc' = [pc EXCEPT ![c] = "done"]
       ELSE /\ pc' = [pc EXCEPT ![c] = "l310"]
            /\ UNCHANGED ret
    /\ UNCHANGED <<fn, args, FLOAT8_DISTRIBUTIONS>>

\* l.310-313: the stored table is read and the result built.  The entry is
\* read from the dictionary, not from the local values.
F8_Scale(c) ==
    /\ pc[c] = "l310"
    /\ ret' = [ret EXCEPT ![c] =
                  IF args[c].element_type \in DOMAIN FLOAT8_DISTRIBUTIONS
                  THEN [raised |-> NoError,
                        zero_point |-> [dtype |-> args[c].zp_dtype.dtype, v |-> 0],
                        scale |-> RDiv(args[c].std,
                                       NumpyStdTable(
                                           FLOAT8_DISTRIBUTIONS[args[c].element_type]))]
                  ELSE Raise("KeyError")]
    /\ pc' = [pc EXCEPT ![c] = "done"]
    /\ UNCHANGED <<fn, args, FLOAT8_DISTRIBUTIONS>>

\* the caller takes the result or the exception
F8_Return(c) ==
    /\ pc[c] = "done"
    /\ pc' = [pc EXCEPT ![c] = "idle"]
    /\ fn' = [fn EXCEPT ![c] = "none"]
    /\ args' = [args EXCEPT ![c] = <<>>]
    /\ ret' = [ret EXCEPT ![c] = Idle]
    /\ UNCHANGED FLOAT8_DISTRIBUTIONS

CacheNext ==
    \E c \in Callers :
        \/ F8_Call(c)
        \/ F8_Lookup(c)
        \/ F8_Compute(c)
        \/ F8_Store(c)
        \/ F8_Hit(c)
        \/ F8_TypeCheck(c)
        \/ F8_Scale(c)
        \/ F8_Return(c)

CacheSpec == CacheInit /\ [][CacheNext]_vars

-----------------------------------------------------------------------------
\* Properties

Returned(f) == pc = "done" /\ fn = f /\ ret.raised = NoError

\* C1: for every range with qmin <= 0 <= qmax and every real interval, in
\* symmetric and asymmetric mode and with or without min_real_range, the
\* zero_point compute_scale_zp returns lies in [qmin, qmax].
C1_ZeroPointInRange ==
    Returned("compute_scale_zp")
        => /\ args.qr.qmin <= ret.zero_point.v
           /\ ret.zero_point.v <= args.qr.qmax

C1_Witness ==
    /\ Returned("compute_scale_zp")
    /\ ~args.symmetric
    /\ args.min_real_range = R(4)
    /\ args.rmin = R(-1) /\ args.rmax = R(2)
    /\ args.qr = ONNX_INT_TYPE_REDUCED_RANGE["UINT8"]
    /\ ret.zero_point.v > args.qr.qmin /\ ret.zero_point.v < args.qr.qmax

C3_RangeSelection ==
    (pc = "done" /\ fn = "get_qmin_qmax_for_qType" /\ args.qType \in IntTypes)
        => /\ ret.raised = NoError
           /\ <<ret.qrange.qmin, ret.qrange.qmax>> =
                 (IF args.reduce_range
                  THEN CASE args.qType = "UINT8" -> <<0, 127>>
                         [] args.qType = "INT8" -> <<-64, 64>>
                         [] args.qType = "UINT16" -> <<0, 32767>>
                         [] args.qType = "INT16" -> <<-16384, 16384>>
                  ELSE IF args.symmetric /\ args.qType \in {"INT8", "INT16"}
                  THEN CASE args.qType = "INT8" -> <<-127, 127>>
                         [] args.qType = "INT16" -> <<-32767, 32767>>
                  ELSE CASE args.qType = "UINT8" -> <<0, 255>>
                         [] args.qType = "INT8" -> <<-128, 127>>
                         [] args.qType = "UINT16" -> <<0, 65535>>
                         [] args.qType = "INT16" -> <<-32768, 32767>>)

C3_Witness ==
    /\ Returned("get_qmin_qmax_for_qType")
    /\ args.qType = "INT8" /\ args.reduce_range /\ args.symmetric
    /\ ret.qrange.qmin = -64 /\ ret.qrange.qmax = 64

\* C4: round-trip bound.  For every integer storage type and flag
\* combination, every element x of the data lying in the returned
\* [rmin, rmax] satisfies |scale * (q - zero_point) - x| <= scale, q being
\* the element quantize_data returns for x.
C4_RoundTripBound ==
    (Returned("quantize_data") /\ args.qType \in IntTypes)
        => \A i \in 1..Len(args.data.elems) :
               (RLe(ret.rmin, R(args.data.elems[i])) /\ RLe(R(args.data.elems[i]), ret.rmax))
                   => RLe(RAbs(RSub(RMul(ret.scale,
                                         R(ret.quantized_data.elems[i] - ret.zero_point.v)),
                                    R(args.data.elems[i]))),
                          ret.scale)

\* C5: reduced-range invariant.  For uint8 with reduce_range = True every
\* element of the array quantize_data returns lies in [0, 127].
C5_ReducedRangeBound ==
    (Returned("quantize_data") /\ args.qType = "UINT8" /\ args.reduce_range)
        => \A i \in 1..Len(ret.quantized_data.elems) :
               ret.quantized_data.elems[i] >= 0 /\ ret.quantized_data.elems[i] <= 127

\* C6: quantize_data on an array without elements, of any shape and for any
\* supported storage type, returns rmin = rmax = 0, zero_point = 0,
\* scale = 1 and an empty array, and no solver is invoked (the array
\* quantizer has no element to quantize).
C6_EmptyArray ==
    (/\ pc = "done" /\ fn = "quantize_data"
     /\ Len(args.data.elems) = 0
     /\ args.qType \in IntTypes \cup {"FLOAT8E4M3FN"}
     /\ ~(args.qType = "FLOAT8E4M3FN" /\ args.reduce_range)
     /\ args.rmin_override = None /\ args.rmax_override = None)
        => /\ ret.raised = NoError
           /\ ret.rmin = R(0) /\ ret.rmax = R(0)
           /\ ret.zero_point.v = 0
           /\ ret.scale = R(1)
           /\ ret.quantized_data.elems = <<>>
           /\ ret.called \cap {"compute_scale_zp", "compute_scale_zp_float8"} = {}

\* C7 as stated: data = [-1, 0, 2], int8, symmetric, not reduced, returns
\* rmin = -2, rmax = 2, zero_point = 0, scale = 2/127 and [-64, 0, 127].
C7_Example_SymmetrizedRange ==
    (/\ pc = "done" /\ fn = "quantize_data"
     /\ args.data = Array(<<3>>, <<-1, 0, 2>>)
     /\ args.qType = "INT8" /\ args.symmetric /\ ~args.reduce_range
     /\ args.min_real_range = None
     /\ args.rmin_override = None /\ args.rmax_override = None)
        => /\ ret.raised = NoError
           /\ ret.rmin = R(-2) /\ ret.rmax = R(2)
           /\ ret.zero_point.v = 0
           /\ ret.scale = Frac(2, 127)
           /\ ret.quantized_data.elems = <<-64, 0, 127>>

\* C7 as amended: the same call returns the range of the data, rmin = -1
\* and rmax = 2 (the symmetrized interval [-2, 2] stays inside the solver),
\* with zero_point = 0, scale = 2/127 and quantized values [-64, 0, 127].
C7_Example ==
    (/\ pc = "done" /\ fn = "quantize_data"
     /\ args.data = Array(<<3>>, <<-1, 0, 2>>)
     /\ args.qType = "INT8" /\ args.symmetric /\ ~args.reduce_range
     /\ args.min_real_range = None
     /\ args.rmin_override = None /\ args.rmax_override = None)
        => /\ ret.raised = NoError
           /\ ret.rmin = R(-1) /\ ret.rmax = R(2)
           /\ ret.zero_point = [dtype |-> "int8", v |-> 0]
           /\ ret.scale = Frac(2, 127)
           /\ ret.quantized_data = Array(<<3>>, <<-64, 0, 127>>)

C7_Witness ==
    /\ Returned("quantize_data")
    /\ args.data = Array(<<3>>, <<-1, 0, 2>>)
    /\ args.qType = "INT8" /\ args.symmetric /\ ~args.reduce_range
    /\ args.min_real_range = None
    /\ args.rmin_override = None /\ args.rmax_override = None
    /\ ret.quantized_data.elems[3] = 127

C9_AllZeroFloat8 ==
    (/\ pc = "done" /\ fn = "quantize_data"
     /\ args.qType = "FLOAT8E4M3FN" /\ ~args.reduce_range
     /\ Len(args.data.elems) > 0
     /\ \A i \in 1..Len(args.data.elems) : args.data.elems[i] = 0)
        => ret.raised # "RuntimeError"

\* C10: float 8 NaN guard.  If any code the quantizer produced has its low 7
\* bits equal to 127, quantize_data fails with RuntimeError; every array it
\* returns on the float 8 path holds no such code.
C10_Float8NaNGuard ==
    (pc = "done" /\ fn = "quantize_data" /\ args.qType = "FLOAT8E4M3FN")
        => /\ ret.raised = NoError
                => \A i \in 1..Len(ret.quantized_data.elems) :
                       ret.quantized_data.elems[i] % 128 # 127
           /\ (/\ ~args.reduce_range
               /\ ~qd_range_raises(args.data, args.rmin_override, args.rmax_override)
               /\ \E i \in 1..Len(args.data.elems) :
                      Float8E4M3FNEncode(
                          RDiv(R(args.data.elems[i]),
                               RDiv(NumpyStd(args.data.elems),
                                    NumpyStdTable(Float8E4M3FNValues)))) % 128 = 127)
                => ret.raised = "RuntimeError"

C10_Witness ==
    /\ pc = "done" /\ fn = "quantize_data"
    /\ args.qType = "FLOAT8E4M3FN" /\ ~args.reduce_range
    /\ args.data = Array(<<2>>, <<0, 0>>)
    /\ Float8E4M3FNEncode(RDiv(R(args.data.elems[1]), RDiv(NumpyStd(args.data.elems),
                                NumpyStdTable(Float8E4M3FNValues)))) = 255
    /\ ret.raised = "RuntimeError"

\* C11: quantize_nparray on an integer storage type rejects a zero_point of
\* floating type (float32 or float16) with a TypeError instead of returning a
\* quantized array.
C11_FloatZeroPointRejected ==
    (/\ pc = "done" /\ fn = "quantize_nparray"
     /\ args.qType \in IntTypes
     /\ args.zero_point.dtype \in {"float32", "float16"})
        => ret.raised = "TypeError"

\* C12: every undefined float 8 combination fails the call and yields no
\* result: quantize_data with a float 8 type and reduce_range = True,
\* quantize_nparray with a float 8 type and zero_point # 0, and
\* compute_scale_zp_float8, quantize_data or quantize_nparray with a float 8
\* variant other than E4M3FN.
C12_UndefinedFloat8Fails ==
    (/\ pc = "done"
     /\ \/ fn = "quantize_data" /\ args.qType \in Float8Types /\ args.reduce_range
        \/ fn = "quantize_nparray" /\ args.qType \in Float8Types /\ args.zero_point.v # 0
        \/ fn = "compute_scale_zp_float8" /\ args.element_type # "FLOAT8E4M3FN"
        \/ /\ fn \in {"quantize_data", "quantize_nparray"}
           /\ args.qType \in Float8Types \ {"FLOAT8E4M3FN"})
        => /\ ret.raised # NoError
           /\ DOMAIN ret = {"raised"}

C12_Witness ==
    /\ pc = "done" /\ fn = "quantize_nparray"
    /\ args.qType = "FLOAT8E4M3FN"
    /\ args.zero_point.v = 3
    /\ Len(args.arr.elems) > 0
    /\ ret = Raise("NotImplementedError")

\* C13 as stated: for an integer storage type quantize_nparray returns an
\* array of the shape of its input whose every element is
\* clip(round(x / scale) + zero_point, effective_low, effective_high), the
\* bounds being the range of the type resolved with reduce_range = False and
\* symmetric = True intersected with the caller's [low, high]; every element
\* lies in [effective_low, effective_high], the clip coming before the cast.
C13_ClipBeforeCast_AnyBounds ==
    (pc = "done" /\ fn = "quantize_nparray" /\ args.qType \in IntTypes)
        => LET full == CASE args.qType = "INT8" -> <<-127, 127>>
                         [] args.qType = "UINT8" -> <<0, 255>>
                         [] args.qType = "INT16" -> <<-32767, 32767>>
                         [] args.qType = "UINT16" -> <<0, 65535>>
               lo == IF args.low = None \/ args.low.v < full[1] THEN full[1] ELSE args.low.v
               hi == IF args.high = None \/ args.high.v > full[2] THEN full[2] ELSE args.high.v
           IN  /\ ret.raised = NoError
               /\ ret.quantized.shape = args.arr.shape
               /\ Len(ret.quantized.elems) = Len(args.arr.elems)
               /\ \A i \in 1..Len(args.arr.elems) :
                      LET v == RoundHalfEven(RDiv(R(args.arr.elems[i]), args.scale))
                                   + args.zero_point.v
                          q == ret.quantized.elems[i]
                      IN  /\ q = (IF v > hi THEN hi ELSE IF v < lo THEN lo ELSE v)
                          /\ lo <= q /\ q <= hi

\* C13 as amended: the same whenever the intersection is not empty
\* (effective_low <= effective_high).  When it is empty no element can lie in
\* it: every element is then effective_high cast to the storage type.
C13_ClipBeforeCast ==
    (pc = "done" /\ fn = "quantize_nparray" /\ args.qType \in IntTypes)
        => LET full == CASE args.qType = "INT8" -> <<-127, 127>>
                         [] args.qType = "UINT8" -> <<0, 255>>
                         [] args.qType = "INT16" -> <<-32767, 32767>>
                         [] args.qType = "UINT16" -> <<0, 65535>>
               lo == IF args.low = None \/ args.low.v < full[1] THEN full[1] ELSE args.low.v
               hi == IF args.high = None \/ args.high.v > full[2] THEN full[2] ELSE args.high.v
           IN  /\ ret.raised = NoError
               /\ ret.quantized.shape = args.arr.shape
               /\ Len(ret.quantized.elems) = Len(args.arr.elems)
               /\ \A i \in 1..Len(args.arr.elems) :
                      LET v == RoundHalfEven(RDiv(R(args.arr.elems[i]), args.scale))
                                   + args.zero_point.v
                          q == ret.quantized.elems[i]
                      IN  IF lo <= hi
                          THEN /\ q = (IF v > hi THEN hi ELSE IF v < lo THEN lo ELSE v)
                               /\ lo <= q /\ q <= hi
                          ELSE \/ q = hi
                               \/ /\ hi < full[1]
                                  /\ q \in {0, AsType(ONNX_TYPE_TO_NP_TYPE[args.qType], hi)}

\* a value below the range of the type is clipped to 0, not wrapped
C13_Witness ==
    /\ Returned("quantize_nparray")
    /\ args.qType = "UINT8"
    /\ args.arr = Array(<<2>>, <<-3, 2>>)
    /\ args.scale = Frac(4, 255)
    /\ args.zero_point = [dtype |-> "int8", v |-> 3]
    /\ args.low = None /\ args.high = [v |-> 10]
    /\ ret.quantized = Array(<<2>>, <<0, 10>>)

\* C14: compute_scale_zp fails with ValueError exactly when qmin > 0 or
\* qmax < 0; for every range with qmin <= 0 <= qmax (qmin = qmax = 0
\* included) and every finite rmin, rmax it returns a result: neither of its
\* assertions fires and the returned scale is >= 0.
C14_InvalidRangeOnly ==
    (pc = "done" /\ fn = "compute_scale_zp" /\ IsFinite(args.rmin) /\ IsFinite(args.rmax))
        => IF args.qr.qmin > 0 \/ args.qr.qmax < 0
           THEN ret = Raise("ValueError")
           ELSE /\ ret.raised = NoError
                /\ RLe(R(0), ret.scale)

\* C16: when min_real_range is given, compute_scale_zp works on an interval
\* of width at least min_real_range obtained by raising rmax only: after the
\* zero clamp rmin is left as it is, the new rmax is not below the old one,
\* and the scale returned is the one of the widened interval (symmetrized in
\* symmetric mode, and replaced by 1 when it falls below tiny).
C16_MinRealRange ==
    (/\ pc = "done" /\ fn = "compute_scale_zp"
     /\ args.min_real_range # None
     /\ args.qr.qmin <= 0 /\ args.qr.qmax >= 0)
        => LET lo == IF RLt(args.rmin, R(0)) THEN args.rmin ELSE R(0)
               hi0 == IF RLt(R(0), args.rmax) THEN args.rmax ELSE R(0)
               hi == csz_rmax(args.rmin, args.rmax, args.min_real_range)
               plain == csz_interval(args.rmin, args.rmax, FALSE, args.min_real_range)
               absmax == IF RLt(RAbs(lo), RAbs(hi)) THEN RAbs(hi) ELSE RAbs(lo)
               width == IF args.symmetric THEN RMul(R(2), absmax) ELSE RSub(hi, lo)
               s == RDiv(width, R(args.qr.qmax - args.qr.qmin))
           IN  /\ RLe(args.min_real_range, RSub(hi, lo))
               /\ RLe(hi0, hi)
               /\ hi \in {hi0, RAdd(lo, args.min_real_range)}
               /\ plain.rmin = lo /\ plain.rmax = hi
               /\ ret.raised = NoError
                      => ret.scale = (IF LessThanTiny(s) THEN R(1) ELSE s)

\* [-1, 2] widened to [-1, 3] for uint8
C16_Witness ==
    /\ Returned("compute_scale_zp")
    /\ args.min_real_range = R(4)
    /\ args.rmin = R(-1) /\ args.rmax = R(2)
    /\ ~args.symmetric
    /\ args.qr = ONNX_INT_TYPE_RANGE["UINT8"]
    /\ csz_rmax(args.rmin, args.rmax, args.min_real_range) = R(3)
    /\ ret.scale = Frac(4, 255)

\* C15: float 8 distribution cache.  Under any interleaving of
\* compute_scale_zp_float8 calls, FLOAT8_DISTRIBUTIONS holds at most the
\* E4M3FN entry, and that entry is always the one table of the 254 finite
\* E4M3FN values; a finished call has the result the sequential function
\* gives for its std, zero_point = 0 included, whether the cache was empty,
\* filled or being filled; a call with an unsupported variant fails, and no
\* step of it changes the cache.
C15_CacheIdempotent ==
    /\ [](/\ DOMAIN FLOAT8_DISTRIBUTIONS \subseteq {"FLOAT8E4M3FN"}
          /\ \A t \in DOMAIN FLOAT8_DISTRIBUTIONS :
                 /\ FLOAT8_DISTRIBUTIONS[t] = Float8E4M3FNValues
                 /\ Len(FLOAT8_DISTRIBUTIONS[t]) = 254
          /\ \A c \in Callers :
                 pc[c] = "done"
                     => /\ ret[c] = compute_scale_zp_float8(EmptyCache, args[c].element_type,
                                                            args[c].std)
                        /\ ret[c] = compute_scale_zp_float8(
                                        f8_cache(EmptyCache, "FLOAT8E4M3FN"),
                                        args[c].element_type, args[c].std)
                        /\ IF args[c].element_type = "FLOAT8E4M3FN"
                           THEN /\ ret[c].raised = NoError
                                /\ ret[c].zero_point.v = 0
                                /\ \A d \in Callers :
                                       (pc[d] = "done" /\ args[d] = args[c])
                                           => ret[d] = ret[c]
                           ELSE /\ ret[c].raised # NoError
                                /\ DOMAIN ret[c] = {"raised"})
    /\ [][\A c \in Callers :
              (pc[c] # "idle" /\ pc'[c] # pc[c] /\ args[c].element_type # "FLOAT8E4M3FN")
                  => UNCHANGED FLOAT8_DISTRIBUTIONS]_vars

\* two callers missed the empty cache together: one has stored the table and
\* returned its result, the other is about to store it again
C15_Witness ==
    /\ pc[1] = "done" /\ ret[1].raised = NoError
    /\ pc[2] = "l302"
    /\ args[1].std = args[2].std
    /\ "FLOAT8E4M3FN" \in DOMAIN FLOAT8_DISTRIBUTIONS

====
